---- MODULE Spec2Model ----
(***************************************************************************)
(* A model of src/stream_win.c, the Windows stream transport of watchman:  *)
(* one stream endpoint (struct win_handle) with its buffered overlapped    *)
(* reads, its queue of overlapped writes and their completion routine,     *)
(* the named pipe connector and the event poller.                          *)
(*                                                                         *)
(* Caller threads run win_read, win_write, win_set_nonb, win_shutdown and  *)
(* win_close; the operating system completes overlapped operations and     *)
(* the completion thread runs write_completed.  Code that runs between     *)
(* EnterCriticalSection and LeaveCriticalSection is one step; code that    *)
(* runs without the mutex is split where another thread can interfere.     *)
(***************************************************************************)
EXTENDS Integers, Sequences, FiniteSets, TLC

----------------------------------------------------------------------------
\* Bounds of the model.

\* Number of win_write calls in a run.
MaxWrites == 3
\* Largest payload of a win_write call, in bytes.
MaxLen == 2
\* Number of operating system failures in a run.
MaxFail == 2
\* Number of failed malloc calls in a run.
MaxAllocFail == 1
\* Number of read contexts (struct overlapped_op) the heap holds at a time.
NReadOps == 2
\* The same for the runs of SpecQueue.
QueueWrites == 2
QueueLen == 1
QueueFail == 1
QueueAllocFail == 0
\* For the runs of SpecRead: failures, bytes the far end of the pipe sends,
\* and the largest size a caller passes to win_read.
ReadFail == 1
ReadIn == 1
ReadSize == 1
\* The same for the runs of SpecError.
ErrorWrites == 1
ErrorFail == 1
\* The same for the runs of SpecBuf.
BufFail == 1
BufIn == 3
BufSize == 2
\* The same for the runs of SpecSeq.
SeqWrites == 1
SeqFail == 1
SeqIn == 1
SeqSize == 1

\* Program constants.
READ_BUF_SIZE == 8192
ERROR_IO_INCOMPLETE == 996
ERROR_IO_PENDING == 997
WAIT_IO_COMPLETION == 192

Threads == {"t1", "t2"}
\* The thread the operating system runs write_completed on.
CbThread == "cb"
NoThread == "none"

ReadOpIds == 1..NReadOps
\* A write context transmits one write_buf; it is named by that buffer.
WriteIds == 1..MaxWrites
\* The codes of the operating system failures of a run.
FailIds == 1..MaxFail
\* The values h->errcode can take.
ErrCodes == FailIds \cup {WAIT_IO_COMPLETION}

----------------------------------------------------------------------------
VARIABLES
  callers,        \* the threads that call into the endpoint
  lim,            \* what a run may use: win_write calls, payload length,
                  \* OS failures, failed mallocs, incoming bytes, read size
  alive,          \* struct win_handle is allocated (win_close has not freed it)
  crashed,        \* "" or why the process stopped
  ub,             \* undefined behaviour the run has executed
  file_type,      \* h->file_type
  blocking,       \* h->blocking
  waitable,       \* h->waitable is signaled
  mtx_owner,      \* h->mtx: the owning thread
  mtx_depth,      \* h->mtx: recursion count
  error_pending,  \* h->error_pending
  errcode,        \* h->errcode
  read_cursor,    \* h->read_cursor - h->read_buf
  read_avail,     \* h->read_avail
  read_pending,   \* h->read_pending (0 is NULL)
  write_pending,  \* h->write_pending (0 is NULL)
  write_queue,    \* h->write_head .. h->write_tail
  rop,            \* read contexts: heap state and the state of the OS read
  wop,            \* write contexts: heap state and the state of the OS write
  wbuf,           \* write buffers: heap state and remaining length
  cb,             \* write_completed invocations, by write context
  pc,             \* position of each caller thread
  loc,            \* locals of each caller thread
  ret,            \* return value and errno of each thread's last call
  in_left,        \* bytes the far end will still send
  n_writes,       \* win_write calls so far
  n_fail,         \* operating system failures so far
  n_allocfail,    \* failed malloc calls so far
  accepted,       \* payloads for which win_write returned a byte count
  submitted,      \* payloads passed to WriteFileEx / WriteFile, and the answer
  reported,       \* how often win_read returned each latched failure
  latched,        \* failures stored into h->errcode so far
  wb_state,       \* "blocked": the last win_read found nothing and left a read
                  \* pending; "ready": that read has since completed with data
  read_mem,       \* h->read_buf: the bytes it holds from offset 0, by number
  delivered,      \* the bytes win_read has copied to its callers, by number
  now,            \* GetTickCount64(), counted from the start of the run, in ms
  path,           \* the named pipe w_stm_connect_named_pipe is given
  conn,           \* w_stm_connect_named_pipe: position, locals, result
  poll            \* w_poll_events: arguments, events, position, result

evars == << callers, lim, alive, crashed, ub, file_type, blocking, waitable,
            mtx_owner, mtx_depth, error_pending, errcode, read_cursor,
            read_avail, read_pending, write_pending, write_queue, rop, wop,
            wbuf, cb, pc, loc, ret, in_left, n_writes, n_fail, n_allocfail,
            accepted, submitted, reported, latched, wb_state, read_mem,
            delivered >>

\* What a run is given.
env == << callers, lim, now, path, conn, poll >>

\* The bytes of the read side: in the buffer, and copied to the callers.
rdata == << read_mem, delivered >>

vars == << evars, now, path, conn, poll >>

----------------------------------------------------------------------------
\* errno values.  map_win32_err is not part of this file: its result is kept
\* as the code it was applied to.
NoErrno == << "unset", 0 >>
EAGAIN == << "EAGAIN", 0 >>
map_win32_err(e) == << "map_win32_err", e >>

\* The result of a call: the value returned, errno, the operation and the
\* path it returned on, and for win_read_non_blocking whether the request
\* fitted the buffered bytes (sat), what ReadFile answered (io) and whether
\* the call began after a pending read had completed with data (ready); for
\* win_read the size asked for (req).
Ret(val, errno, op) ==
  [val |-> val, errno |-> errno, op |-> op, sat |-> FALSE, io |-> "",
   ready |-> FALSE, req |-> 0]
NoRet == Ret(0, NoErrno, "none")
NoLoc == [size |-> 0, total |-> 0, ores |-> FALSE, bytes |-> 0, err |-> 0,
          p |-> 0, ready |-> FALSE, req |-> 0]

Min(a, b) == IF a < b THEN a ELSE b
Max(a, b) == IF a >= b THEN a ELSE b

----------------------------------------------------------------------------
\* h->mtx, a CRITICAL_SECTION: recursive, owned by a thread.

CanLock(p) == mtx_owner \in {NoThread, p}

\* A section that enters and leaves within the step leaves the mutex as it was.
MutexSame == UNCHANGED << mtx_owner, mtx_depth >>

\* EnterCriticalSection without a matching LeaveCriticalSection in the step.
MutexEnter(p) ==
  /\ mtx_owner' = p
  /\ mtx_depth' = mtx_depth + 1

\* LeaveCriticalSection for an earlier step's EnterCriticalSection.
MutexLeave ==
  /\ mtx_depth' = mtx_depth - 1
  /\ mtx_owner' = IF mtx_depth = 1 THEN NoThread ELSE mtx_owner

Running == alive /\ crashed = ""

----------------------------------------------------------------------------
\* free() of a context or buffer record.
Freed(r) == [r EXCEPT !.mem = IF r.mem = "live" THEN "freed" ELSE "double"]

\* initiate_write with the cleanup of lines 396-397 run on both branches: the
\* context of a write the OS took is dropped from h->write_pending.
initiate_write_unrecorded(wp, q, ops, sub, ok) ==
  IF wp # 0 \/ q = << >>
  THEN [wp |-> wp, q |-> q, ops |-> ops, sub |-> sub]
  ELSE LET b == Head(q) IN
       [wp |-> 0, q |-> Tail(q),
        ops |-> [ops EXCEPT ![b] = [mem |-> IF ok THEN "live" ELSE "freed",
                                    os |-> IF ok THEN "pending" ELSE "none"]],
        sub |-> Append(sub, [p |-> b, ok |-> ok])]

\* initiate_write (lines 377-401), called with the mutex held.  ok is the
\* answer of WriteFileEx.  The head buffer leaves the queue before the
\* submission; a failed submission frees the context and keeps no pointer
\* to the buffer.
initiate_write(wp, q, ops, sub, ok) ==
  IF wp # 0 \/ q = << >>
  THEN [wp |-> wp, q |-> q, ops |-> ops, sub |-> sub]
  ELSE LET b == Head(q) IN
       IF ok
       THEN [wp |-> b, q |-> Tail(q),
             ops |-> [ops EXCEPT ![b] = [mem |-> "live", os |-> "pending"]],
             sub |-> Append(sub, [p |-> b, ok |-> TRUE])]
       ELSE [wp |-> 0, q |-> Tail(q),
             ops |-> [ops EXCEPT ![b] = [mem |-> "freed", os |-> "none"]],
             sub |-> Append(sub, [p |-> b, ok |-> FALSE])]

----------------------------------------------------------------------------
\* win_write (lines 403-447).

\* The test of line 408 for the direct synchronous write.
WriteDirect == file_type # "PIPE" /\ blocking /\ write_queue = << >>

\* Lines 424-446: copy the payload into a write_buf, append it to the queue and
\* start it when nothing is in flight.  A failed malloc returns at line 426,
\* after EnterCriticalSection and without LeaveCriticalSection.
win_write(t) ==
  /\ Running /\ t \in callers /\ pc[t] = "idle"
  /\ n_writes < lim.writes
  /\ CanLock(t)
  /\ ~WriteDirect
  /\ \E len \in 1..lim.len, alloc_ok \in BOOLEAN, sub_ok \in BOOLEAN :
       LET p == n_writes + 1 IN
       /\ n_writes' = p
       /\ IF ~alloc_ok
          THEN /\ n_allocfail < lim.allocfails
               /\ sub_ok
               /\ n_allocfail' = n_allocfail + 1
               /\ MutexEnter(t)
               /\ ret' = [ret EXCEPT ![t] =
                            Ret(-1, << "ENOMEM", 0 >>, "write")]
               /\ UNCHANGED << wbuf, write_queue, write_pending, wop,
                               submitted, accepted, n_fail >>
          ELSE LET q1 == Append(write_queue, p)
                   starts == write_pending = 0
                   r == IF starts
                        THEN initiate_write(write_pending, q1, wop, submitted,
                                            sub_ok)
                        ELSE [wp |-> write_pending, q |-> q1, ops |-> wop,
                              sub |-> submitted]
               IN
               /\ sub_ok \/ (starts /\ n_fail < lim.fails)
               /\ n_fail' = IF sub_ok THEN n_fail ELSE n_fail + 1
               /\ wbuf' = [wbuf EXCEPT ![p] = [mem |-> "live", len |-> len]]
               /\ write_queue' = r.q
               /\ write_pending' = r.wp
               /\ wop' = r.ops
               /\ submitted' = r.sub
               /\ accepted' = Append(accepted, p)
               /\ ret' = [ret EXCEPT ![t] =
                            Ret(len, NoErrno, "write")]
               /\ MutexSame
               /\ UNCHANGED n_allocfail
  /\ UNCHANGED << env, rdata, alive, crashed, ub, file_type, blocking,
                  waitable, error_pending, errcode, read_cursor, read_avail,
                  read_pending, rop, cb, pc, loc, in_left, reported, latched,
                  wb_state >>

\* Lines 407-411: the direct write is issued with the mutex held.
win_write_direct(t) ==
  /\ Running /\ t \in callers /\ pc[t] = "idle"
  /\ n_writes < lim.writes
  /\ CanLock(t)
  /\ WriteDirect
  /\ \E len \in 1..lim.len :
       /\ n_writes' = n_writes + 1
       /\ loc' = [loc EXCEPT ![t] = [NoLoc EXCEPT !.size = len,
                                                  !.p = n_writes + 1]]
  /\ MutexEnter(t)
  /\ pc' = [pc EXCEPT ![t] = "wr_sync"]
  /\ UNCHANGED << env, rdata, alive, crashed, ub, file_type, blocking,
                  waitable, error_pending, errcode, read_cursor, read_avail,
                  read_pending, write_pending, write_queue, rop, wop, wbuf,
                  cb, ret, in_left, n_fail, n_allocfail, accepted, submitted,
                  reported, latched, wb_state >>

\* Lines 411-421: WriteFile returns; on failure the error is latched and the
\* event set.
win_write_direct_done(t) ==
  /\ Running /\ pc[t] = "wr_sync"
  /\ \E ok \in BOOLEAN :
       /\ ok \/ n_fail < lim.fails
       /\ submitted' = Append(submitted, [p |-> loc[t].p, ok |-> ok])
       /\ IF ok
          THEN /\ accepted' = Append(accepted, loc[t].p)
               /\ ret' = [ret EXCEPT ![t] =
                            Ret(loc[t].size, NoErrno, "write")]
               /\ UNCHANGED << errcode, error_pending, waitable, n_fail,
                               latched >>
          ELSE /\ n_fail' = n_fail + 1
               /\ errcode' = n_fail + 1
               /\ error_pending' = TRUE
               /\ latched' = latched \cup {n_fail + 1}
               /\ waitable' = TRUE
               /\ ret' = [ret EXCEPT ![t] =
                            Ret(-1, map_win32_err(n_fail + 1), "write")]
               /\ UNCHANGED accepted
  /\ MutexLeave
  /\ pc' = [pc EXCEPT ![t] = "idle"]
  /\ loc' = [loc EXCEPT ![t] = NoLoc]
  /\ UNCHANGED << env, rdata, alive, crashed, ub, file_type, blocking,
                  read_cursor, read_avail, read_pending, write_pending,
                  write_queue, rop, wop, wbuf, cb, in_left, n_writes,
                  n_allocfail, reported, wb_state >>

----------------------------------------------------------------------------
\* The operating system finishes the overlapped write of context i and queues
\* its completion routine with the error and the byte count.
os_write_complete(i) ==
  /\ crashed = ""
  /\ wop[i].os = "pending"
  /\ \E ok \in BOOLEAN, n \in 1..lim.len :
       /\ n <= wbuf[i].len
       /\ ok \/ (n = 1 /\ n_fail < lim.fails)
       /\ n_fail' = IF ok THEN n_fail ELSE n_fail + 1
       /\ cb' = [cb EXCEPT ![i] =
                   [pc |-> "queued",
                    err |-> IF ok THEN 0 ELSE n_fail + 1,
                    bytes |-> IF ok THEN n ELSE 0]]
  /\ wop' = [wop EXCEPT ![i].os = "done"]
  /\ UNCHANGED << env, rdata, alive, crashed, ub, file_type, blocking,
                  waitable, mtx_owner, mtx_depth, error_pending, errcode,
                  read_cursor, read_avail, read_pending, write_pending,
                  write_queue, rop, wbuf, pc, loc, ret, in_left, n_writes,
                  n_allocfail, accepted, submitted, reported, latched,
                  wb_state >>

\* write_completed (lines 331-368), up to LeaveCriticalSection.  The context
\* and the handle it points to are read first: after win_close they are freed
\* memory.
write_completed(i) ==
  /\ crashed = ""
  /\ cb[i].pc = "queued"
  /\ IF ~alive
     THEN /\ ub' = ub \cup {"use after free"}
          /\ cb' = [cb EXCEPT ![i] = [pc |-> "none", err |-> 0, bytes |-> 0]]
          /\ UNCHANGED << crashed, waitable, mtx_owner, mtx_depth,
                          error_pending, errcode, write_pending, write_queue,
                          wop, wbuf, n_fail, submitted, latched >>
     ELSE
       /\ CanLock(CbThread)
       /\ LET wp1 == IF write_pending = i THEN 0 ELSE write_pending
              left == wbuf[i].len - cb[i].bytes
              fatal == cb[i].err = 0 /\ left # 0
          IN
          \E sub_ok \in BOOLEAN :
            LET r == initiate_write(wp1, write_queue, wop, submitted, sub_ok)
                starts == wp1 = 0 /\ write_queue # << >> /\ ~fatal
            IN
            /\ sub_ok \/ (starts /\ n_fail < lim.fails)
            /\ n_fail' = IF sub_ok THEN n_fail ELSE n_fail + 1
            /\ IF cb[i].err = 0
               THEN /\ wbuf' = [wbuf EXCEPT ![i] =
                                 IF left = 0
                                 THEN Freed([@ EXCEPT !.len = 0])
                                 ELSE [@ EXCEPT !.len = left]]
                    /\ UNCHANGED << errcode, error_pending, waitable, latched >>
               ELSE /\ errcode' = cb[i].err
                    /\ error_pending' = TRUE
                    /\ latched' = latched \cup {cb[i].err}
                    /\ waitable' = TRUE
                    /\ UNCHANGED wbuf
            /\ IF fatal
               THEN \* w_log(W_LOG_FATAL, ...) ends the process
                    /\ crashed' = "short write"
                    /\ write_pending' = wp1
                    /\ UNCHANGED << write_queue, wop, submitted >>
               ELSE /\ write_pending' = r.wp
                    /\ write_queue' = r.q
                    /\ wop' = r.ops
                    /\ submitted' = r.sub
                    /\ UNCHANGED crashed
            /\ cb' = [cb EXCEPT ![i].pc = "free"]
            /\ MutexSame
            /\ UNCHANGED ub
  /\ UNCHANGED << env, rdata, alive, file_type, blocking, read_cursor,
                  read_avail, read_pending, rop, pc, loc, ret, in_left,
                  n_writes, n_allocfail, accepted, reported, wb_state >>

\* write_completed, line 373: free(op) after the mutex is released.
write_completed_free(i) ==
  /\ crashed = ""
  /\ cb[i].pc = "free"
  /\ wop' = [wop EXCEPT ![i] = Freed(@)]
  /\ cb' = [cb EXCEPT ![i] = [pc |-> "none", err |-> 0, bytes |-> 0]]
  /\ UNCHANGED << env, rdata, alive, crashed, ub, file_type, blocking,
                  waitable, mtx_owner, mtx_depth, error_pending, errcode,
                  read_cursor, read_avail, read_pending, write_pending,
                  write_queue, rop, wbuf, pc, loc, ret, in_left, n_writes,
                  n_fail, n_allocfail, accepted, submitted, reported, latched,
                  wb_state >>

----------------------------------------------------------------------------
\* win_set_nonb (lines 454-457): no mutex.
win_set_nonb(t) ==
  /\ Running /\ t \in callers /\ pc[t] = "idle"
  /\ \E nonb \in BOOLEAN :
       /\ blocking # ~nonb
       /\ blocking' = ~nonb
  /\ UNCHANGED << env, rdata, alive, crashed, ub, file_type, waitable,
                  mtx_owner, mtx_depth, error_pending, errcode, read_cursor,
                  read_avail, read_pending, write_pending, write_queue, rop,
                  wop, wbuf, cb, pc, loc, ret, in_left, n_writes, n_fail,
                  n_allocfail, accepted, submitted, reported, latched,
                  wb_state >>

----------------------------------------------------------------------------
\* The read buffer.

\* move_from_read_buffer without the MIN of line 155: all buffered bytes go
\* to the caller.
move_from_read_buffer_all(cursor, avail, size) ==
  IF avail = 0
  THEN [nread |-> 0, cursor |-> cursor, avail |-> avail]
  ELSE [nread |-> avail, cursor |-> 0, avail |-> 0]

\* move_from_read_buffer (lines 151-177): copy MIN(size, read_avail) bytes to
\* the caller and pack the rest to the front of read_buf.
move_from_read_buffer(cursor, avail, size) ==
  LET nread == Min(size, avail) IN
  IF nread = 0
  THEN [nread |-> 0, cursor |-> cursor, avail |-> avail]
  ELSE LET wasted == cursor + nread IN
       [nread |-> nread,
        cursor |-> IF wasted # 0 THEN 0 ELSE cursor + nread,
        avail |-> avail - nread]

NoReadOp == [mem |-> "none", os |-> "none", bytes |-> 0, err |-> 0, off |-> 0]

\* A context slot calloc can return: not allocated, and no OS read uses it.
FreeReadOps == { i \in ReadOpIds : rop[i].mem # "live" /\ rop[i].os = "none" }
NewReadOp == CHOOSE i \in FreeReadOps : \A j \in FreeReadOps : i <= j

\* The bytes the far end sends are numbered from 1: the number of the next
\* one, and n bytes from number first on.
NextByte == (lim.incoming - in_left) + 1
Bytes(first, n) == [k \in 1..n |-> first + (k - 1)]

\* read_buf is zeroed by calloc (line 527): the byte at offset k - 1.
ByteAt(mem, k) == IF k \in 1..Len(mem) THEN mem[k] ELSE 0

\* The memory after data is stored at offset off: what ReadFile does to its
\* target (lines 261, 274).
StoreAt(mem, off, data) ==
  [k \in 1..Max(Len(mem), off + Len(data)) |->
     IF k > off /\ k <= off + Len(data) THEN data[k - off]
     ELSE ByteAt(mem, k)]

\* Line 162: the nread bytes memcpy takes from h->read_cursor.
Taken(mem, cursor, nread) == [k \in 1..nread |-> ByteAt(mem, cursor + k)]

\* Lines 172-176 with the memmove of line 174 left out: the cursor goes back
\* to the start of the buffer and the bytes stay where they are.
Pack_unmoved(mem, wasted, avail) == mem

\* Lines 172-176: memmove(h->read_buf, h->read_cursor, h->read_avail) when
\* the cursor, now at wasted, is not at the start of the buffer.
Pack(mem, wasted, avail) ==
  IF wasted = 0 THEN mem
  ELSE [k \in 1..Max(Len(mem), avail) |->
          IF k <= avail THEN ByteAt(mem, wasted + k) ELSE ByteAt(mem, k)]

\* free(h->read_pending): free(NULL) does nothing; a context the OS still
\* reads into stays known to the OS.
FreeReadOp(ops, i) ==
  IF i = 0 THEN ops
  ELSE [ops EXCEPT ![i] = IF @.os = "pending"
                          THEN [@ EXCEPT !.mem = "freed"]
                          ELSE NoReadOp]

----------------------------------------------------------------------------
\* win_read (lines 307-327) and win_read_handle_completion (lines 179-218).

\* Lines 183-192: the first locked section of win_read_handle_completion.
win_read(t) ==
  /\ Running /\ t \in callers /\ pc[t] = "idle"
  /\ CanLock(t)
  /\ \E size \in 1..lim.size :
       loc' = [loc EXCEPT ![t] = [NoLoc EXCEPT !.size = size, !.req = size,
                                             !.ready = wb_state = "ready"]]
  /\ pc' = [pc EXCEPT ![t] = IF read_pending = 0 THEN "rd_err"
                             ELSE "rd_hc_wait"]
  /\ ret' = [ret EXCEPT ![t] = NoRet]
  /\ wb_state' = "none"
  /\ UNCHANGED << env, rdata, alive, crashed, ub, file_type, blocking,
                  waitable, mtx_owner, mtx_depth, error_pending, errcode,
                  read_cursor, read_avail, read_pending, write_pending,
                  write_queue, rop, wop, wbuf, cb, in_left, n_writes, n_fail,
                  n_allocfail, accepted, submitted, reported, latched >>

\* Lines 193-195: get_overlapped_result_ex on h->read_pending, read without
\* the mutex; it waits for the result when h->blocking and polls otherwise.
\* The wait is alertable: when a completion routine runs in it, the call
\* returns FALSE with WAIT_IO_COMPLETION (lines 63-65) and the read is still
\* in flight; this counts as one of the failures of the run.
win_read_get_result(t) ==
  /\ Running /\ pc[t] = "rd_hc_wait"
  /\ IF read_pending = 0
     THEN \* &h->read_pending->olap of a NULL read_pending
          /\ crashed' = "null overlapped"
          /\ UNCHANGED << pc, loc, n_fail >>
     ELSE LET o == rop[read_pending] IN
          \E alerted \in BOOLEAN :
            /\ IF alerted
               THEN /\ blocking /\ o.os = "pending"
                    /\ \E i \in WriteIds : cb[i].pc = "free"
                    /\ n_fail < lim.fails
               ELSE o.os = "pending" => ~blocking
            /\ n_fail' = IF alerted THEN n_fail + 1 ELSE n_fail
            /\ loc' = [loc EXCEPT
                         ![t].ores = o.os = "ok",
                         ![t].bytes = IF o.os = "ok" THEN o.bytes ELSE 0,
                         ![t].err = CASE o.os = "ok" -> 0
                                      [] alerted -> WAIT_IO_COMPLETION
                                      [] o.os = "pending" ->
                                           ERROR_IO_INCOMPLETE
                                      [] OTHER -> o.err]
            /\ pc' = [pc EXCEPT ![t] = "rd_hc_done"]
            /\ UNCHANGED crashed
  /\ UNCHANGED << env, rdata, alive, ub, file_type, blocking, waitable,
                  mtx_owner, mtx_depth, error_pending, errcode, read_cursor,
                  read_avail, read_pending, write_pending, write_queue, rop,
                  wop, wbuf, cb, ret, in_left, n_writes, n_allocfail,
                  accepted, submitted, reported, latched, wb_state >>

\* Lines 198-214 with the read_avail += bytes of line 201 left out.
read_completion_dropped(rp, avail, ops, ores, bytes, err) ==
  IF ores
  THEN [rp |-> 0, avail |-> avail, ops |-> FreeReadOp(ops, rp),
        failed |-> FALSE]
  ELSE IF err # ERROR_IO_INCOMPLETE
       THEN [rp |-> 0, avail |-> avail, ops |-> FreeReadOp(ops, rp),
             failed |-> TRUE]
       ELSE [rp |-> rp, avail |-> avail, ops |-> ops, failed |-> FALSE]

\* Lines 198-214: what the result of get_overlapped_result_ex does to
\* h->read_pending, h->read_avail and the context; failed when the error is
\* to be latched.
read_completion(rp, avail, ops, ores, bytes, err) ==
  IF ores
  THEN [rp |-> 0, avail |-> avail + bytes, ops |-> FreeReadOp(ops, rp),
        failed |-> FALSE]
  ELSE IF err # ERROR_IO_INCOMPLETE
       THEN [rp |-> 0, avail |-> avail, ops |-> FreeReadOp(ops, rp),
             failed |-> TRUE]
       ELSE [rp |-> rp, avail |-> avail, ops |-> ops, failed |-> FALSE]

\* Lines 196-217: the second locked section, and the return value
\* h->read_pending != NULL; win_read returns EAGAIN when it is true.
win_read_handle_completion(t) ==
  /\ Running /\ pc[t] = "rd_hc_done"
  /\ CanLock(t)
  /\ LET r == read_completion(read_pending, read_avail, rop, loc[t].ores,
                              loc[t].bytes, loc[t].err)
     IN
     /\ read_avail' = r.avail
     /\ rop' = r.ops
     /\ read_pending' = r.rp
     /\ IF r.failed
        THEN /\ errcode' = loc[t].err
             /\ error_pending' = TRUE
             /\ latched' = latched \cup {loc[t].err}
        ELSE UNCHANGED << errcode, error_pending, latched >>
     /\ IF r.rp # 0
        THEN /\ ret' = [ret EXCEPT ![t] =
                          [Ret(-1, EAGAIN, "read_pending")
                             EXCEPT !.ready = loc[t].ready,
                                    !.req = loc[t].req]]
             /\ pc' = [pc EXCEPT ![t] = "idle"]
             /\ loc' = [loc EXCEPT ![t] = NoLoc]
             /\ wb_state' = IF rop[r.rp].os = "pending" /\ read_avail = 0
                            THEN "blocked" ELSE "none"
        ELSE /\ pc' = [pc EXCEPT ![t] = "rd_err"]
             /\ UNCHANGED << ret, loc, wb_state >>
  /\ MutexSame
  /\ UNCHANGED << env, rdata, alive, crashed, ub, file_type, blocking,
                  waitable, read_cursor, write_pending, write_queue, wop,
                  wbuf, cb, in_left, n_writes, n_fail, n_allocfail, accepted,
                  submitted, reported >>

\* Lines 316-317: the test of h->error_pending and the read of h->errcode,
\* without the mutex.
win_read_error_test(t) ==
  /\ Running /\ pc[t] = "rd_err"
  /\ IF error_pending
     THEN /\ loc' = [loc EXCEPT ![t].err = errcode]
          /\ pc' = [pc EXCEPT ![t] = "rd_err_clear"]
     ELSE /\ pc' = [pc EXCEPT ![t] = "rd_body"]
          /\ UNCHANGED loc
  /\ UNCHANGED << env, rdata, alive, crashed, ub, file_type, blocking,
                  waitable, mtx_owner, mtx_depth, error_pending, errcode,
                  read_cursor, read_avail, read_pending, write_pending,
                  write_queue, rop, wop, wbuf, cb, ret, in_left, n_writes,
                  n_fail, n_allocfail, accepted, submitted, reported, latched,
                  wb_state >>

\* Lines 318-319: clear h->error_pending and return the error.
win_read_error_report(t) ==
  /\ Running /\ pc[t] = "rd_err_clear"
  /\ error_pending' = FALSE
  /\ reported' = [reported EXCEPT ![loc[t].err] = @ + 1]
  /\ ret' = [ret EXCEPT ![t] =
               [Ret(-1, map_win32_err(loc[t].err), "read_error")
                  EXCEPT !.ready = loc[t].ready, !.req = loc[t].req]]
  /\ pc' = [pc EXCEPT ![t] = "idle"]
  /\ loc' = [loc EXCEPT ![t] = NoLoc]
  /\ UNCHANGED << env, rdata, alive, crashed, ub, file_type, blocking,
                  waitable, mtx_owner, mtx_depth, errcode, read_cursor,
                  read_avail, read_pending, write_pending, write_queue, rop,
                  wop, wbuf, cb, in_left, n_writes, n_fail, n_allocfail,
                  accepted, submitted, latched, wb_state >>

----------------------------------------------------------------------------
\* win_read_blocking (lines 220-249).

\* Lines 224-228: serve the caller from the buffer; return when that was all.
win_read_blocking(t) ==
  /\ Running /\ pc[t] = "rd_body"
  /\ blocking
  /\ LET m == move_from_read_buffer(read_cursor, read_avail, loc[t].size)
         rest == loc[t].size - m.nread
     IN
     /\ read_cursor' = m.cursor
     /\ read_avail' = m.avail
     /\ delivered' = delivered \o Taken(read_mem, read_cursor, m.nread)
     /\ read_mem' = IF m.nread = 0 THEN read_mem
                    ELSE Pack(read_mem, read_cursor + m.nread, m.avail)
     /\ IF rest = 0
        THEN /\ ret' = [ret EXCEPT ![t] =
                          [Ret(m.nread, NoErrno, "read_blocking")
                             EXCEPT !.ready = loc[t].ready,
                                    !.req = loc[t].req]]
             /\ pc' = [pc EXCEPT ![t] = "idle"]
             /\ loc' = [loc EXCEPT ![t] = NoLoc]
        ELSE /\ pc' = [pc EXCEPT ![t] = "rd_sync"]
             /\ loc' = [loc EXCEPT ![t].size = rest, ![t].total = m.nread]
             /\ UNCHANGED ret
  /\ UNCHANGED << env, alive, crashed, ub, file_type, blocking, waitable,
                  mtx_owner, mtx_depth, error_pending, errcode, read_pending,
                  write_pending, write_queue, rop, wop, wbuf, cb, in_left,
                  n_writes, n_fail, n_allocfail, accepted, submitted,
                  reported, latched, wb_state >>

\* Lines 238-248 with the test of total_read at line 242 left out: a failed
\* ReadFile is always an error.
win_read_blocking_failed_always(total, err) ==
  Ret(-1, map_win32_err(err), "read_blocking")

\* Lines 238-248: what win_read_blocking returns when ReadFile failed with
\* err after total bytes were copied from the buffer.
win_read_blocking_failed(total, err) ==
  IF total # 0
  THEN Ret(total, NoErrno, "read_blocking")
  ELSE Ret(-1, map_win32_err(err), "read_blocking")

\* Lines 231-248: the synchronous ReadFile returns.  A failure after bytes
\* were copied from the buffer returns those bytes.
win_read_blocking_done(t) ==
  /\ Running /\ pc[t] = "rd_sync"
  /\ \E ok \in BOOLEAN, n \in 1..lim.size :
       IF ok
       THEN /\ n <= Min(loc[t].size, in_left)
            /\ in_left' = in_left - n
            /\ delivered' = delivered \o Bytes(NextByte, n)
            /\ ret' = [ret EXCEPT ![t] =
                         [Ret(loc[t].total + n, NoErrno, "read_blocking")
                            EXCEPT !.ready = loc[t].ready, !.io = "sync",
                                   !.req = loc[t].req]]
            /\ UNCHANGED n_fail
       ELSE /\ n = 1 /\ n_fail < lim.fails
            /\ n_fail' = n_fail + 1
            /\ ret' = [ret EXCEPT ![t] =
                         [win_read_blocking_failed(loc[t].total, n_fail + 1)
                            EXCEPT !.ready = loc[t].ready, !.io = "failed",
                                   !.req = loc[t].req]]
            /\ UNCHANGED << in_left, delivered >>
  /\ pc' = [pc EXCEPT ![t] = "idle"]
  /\ loc' = [loc EXCEPT ![t] = NoLoc]
  /\ UNCHANGED << env, read_mem, alive, crashed, ub, file_type, blocking, waitable,
                  mtx_owner, mtx_depth, error_pending, errcode, read_cursor,
                  read_avail, read_pending, write_pending, write_queue, rop,
                  wop, wbuf, cb, n_writes, n_allocfail, accepted, submitted,
                  reported, latched, wb_state >>

----------------------------------------------------------------------------
\* win_read_non_blocking (lines 251-305), without the mutex.  io is the answer
\* of the overlapped ReadFile: "pending" (ERROR_IO_PENDING), "failed" (another
\* error) or "now" (completed at once with n bytes).  The new context is
\* stored over h->read_pending whatever that held.
win_read_non_blocking(t) ==
  /\ Running /\ pc[t] = "rd_body"
  /\ ~blocking
  /\ FreeReadOps # {}
  /\ LET m == move_from_read_buffer(read_cursor, read_avail, loc[t].size)
         rest == loc[t].size - m.nread
         target == m.cursor + m.avail
         target_space == READ_BUF_SIZE - target
         op == NewReadOp
     IN
     \E io \in {"pending", "failed", "now"}, n \in 0..lim.incoming :
       /\ io = "now" => n >= 1 /\ n <= Min(target_space, in_left)
       /\ io # "now" => n = 0
       /\ io = "failed" => n_fail < lim.fails
       /\ n_fail' = IF io = "failed" THEN n_fail + 1 ELSE n_fail
       /\ in_left' = IF io = "now" THEN in_left - n ELSE in_left
       /\ waitable' = IF io = "now" THEN TRUE
                      ELSE IF m.avail = 0 THEN FALSE ELSE waitable
       /\ rop' = IF io = "pending"
                 THEN [rop EXCEPT ![op] = [mem |-> "live", os |-> "pending",
                                           bytes |-> 0, err |-> 0,
                                           off |-> target]]
                 ELSE rop
       /\ read_pending' = IF io = "pending" THEN op ELSE 0
       /\ LET m2 == IF io = "now"
                    THEN move_from_read_buffer(m.cursor, m.avail + n, rest)
                    ELSE [nread |-> 0, cursor |-> m.cursor, avail |-> m.avail]
              total == m.nread + m2.nread
              mem1 == IF m.nread = 0 THEN read_mem
                      ELSE Pack(read_mem, read_cursor + m.nread, m.avail)
              mem2 == IF io = "now"
                      THEN StoreAt(mem1, target, Bytes(NextByte, n))
                      ELSE mem1
              r == CASE io = "now" -> Ret(total, NoErrno, "read_nonblocking")
                     [] io = "pending" ->
                          IF total = 0
                          THEN Ret(-1, map_win32_err(ERROR_IO_PENDING),
                                   "read_nonblocking")
                          ELSE Ret(total, map_win32_err(ERROR_IO_PENDING),
                                   "read_nonblocking")
                     [] OTHER ->
                          IF total = 0
                          THEN Ret(-1, map_win32_err(n_fail + 1),
                                   "read_nonblocking")
                          ELSE Ret(total, map_win32_err(n_fail + 1),
                                   "read_nonblocking")
          IN
          /\ read_cursor' = m2.cursor
          /\ read_avail' = m2.avail
          /\ delivered' = (delivered \o Taken(read_mem, read_cursor, m.nread))
                             \o Taken(mem2, m.cursor, m2.nread)
          /\ read_mem' = IF m2.nread = 0 THEN mem2
                         ELSE Pack(mem2, m.cursor + m2.nread, m2.avail)
          /\ ret' = [ret EXCEPT ![t] =
                       [r EXCEPT !.sat = rest = 0, !.io = io,
                                 !.ready = loc[t].ready, !.req = loc[t].req]]
          /\ wb_state' = IF io = "pending" /\ total = 0 THEN "blocked"
                         ELSE "none"
  /\ pc' = [pc EXCEPT ![t] = "idle"]
  /\ loc' = [loc EXCEPT ![t] = NoLoc]
  /\ UNCHANGED << env, alive, crashed, ub, file_type, blocking,
                  mtx_owner, mtx_depth, error_pending, errcode,
                  write_pending, write_queue, wop, wbuf, cb, n_writes,
                  n_allocfail, accepted, submitted, reported, latched >>

\* The operating system finishes the overlapped read of context i: it stores
\* the result in the context and signals the event named in it.
os_read_complete(i) ==
  /\ crashed = ""
  /\ rop[i].os = "pending"
  /\ \E ok \in BOOLEAN, n \in 0..lim.incoming :
       /\ IF ok THEN n >= 1 /\ n <= in_left ELSE n = 0 /\ n_fail < lim.fails
       /\ in_left' = IF ok THEN in_left - n ELSE in_left
       /\ n_fail' = IF ok THEN n_fail ELSE n_fail + 1
       /\ read_mem' = IF ok /\ alive
                      THEN StoreAt(read_mem, rop[i].off, Bytes(NextByte, n))
                      ELSE read_mem
       /\ IF rop[i].mem = "live"
          THEN /\ rop' = [rop EXCEPT ![i] =
                            [mem |-> "live",
                             os |-> IF ok THEN "ok" ELSE "err",
                             bytes |-> IF ok THEN n ELSE 0,
                             err |-> IF ok THEN 0 ELSE n_fail + 1,
                             off |-> rop[i].off]]
               /\ UNCHANGED ub
          ELSE /\ rop' = [rop EXCEPT ![i] = NoReadOp]
               /\ ub' = ub \cup {"use after free"}
       /\ wb_state' = IF wb_state = "blocked" /\ read_pending = i
                      THEN (IF ok THEN "ready" ELSE "none")
                      ELSE wb_state
  /\ waitable' = IF alive THEN TRUE ELSE waitable
  /\ UNCHANGED << env, delivered, alive, crashed, file_type, blocking, mtx_owner,
                  mtx_depth, error_pending, errcode, read_cursor, read_avail,
                  read_pending, write_pending, write_queue, wop, wbuf, cb,
                  pc, loc, ret, n_writes, n_allocfail, accepted, submitted,
                  reported, latched >>

----------------------------------------------------------------------------
\* win_shutdown (lines 472-484), without the mutex.

\* Line 477.
win_shutdown(t) ==
  /\ Running /\ t \in callers /\ pc[t] = "idle"
  /\ blocking' = TRUE
  /\ pc' = [pc EXCEPT ![t] = "sd_test"]
  /\ ret' = [ret EXCEPT ![t] = NoRet]
  /\ UNCHANGED << env, rdata, alive, crashed, ub, file_type, waitable,
                  mtx_owner, mtx_depth, error_pending, errcode, read_cursor,
                  read_avail, read_pending, write_pending, write_queue, rop,
                  wop, wbuf, cb, loc, in_left, n_writes, n_fail, n_allocfail,
                  accepted, submitted, reported, latched, wb_state >>

\* Line 478: the loop test; the function returns true when no write is pending.
win_shutdown_test(t) ==
  /\ Running /\ pc[t] = "sd_test"
  /\ IF write_pending = 0
     THEN /\ ret' = [ret EXCEPT ![t] = Ret(1, NoErrno, "shutdown")]
          /\ pc' = [pc EXCEPT ![t] = "idle"]
     ELSE /\ pc' = [pc EXCEPT ![t] = "sd_wait"]
          /\ UNCHANGED ret
  /\ UNCHANGED << env, rdata, alive, crashed, ub, file_type, blocking,
                  waitable, mtx_owner, mtx_depth, error_pending, errcode,
                  read_cursor, read_avail, read_pending, write_pending,
                  write_queue, rop, wop, wbuf, cb, loc, in_left, n_writes,
                  n_fail, n_allocfail, accepted, submitted, reported, latched,
                  wb_state >>

\* Lines 479-480: get_overlapped_result_ex on h->write_pending, read again,
\* with an infinite timeout.
win_shutdown_wait(t) ==
  /\ Running /\ pc[t] = "sd_wait"
  /\ IF write_pending = 0
     THEN /\ crashed' = "null overlapped"
          /\ UNCHANGED pc
     ELSE /\ wop[write_pending].os = "done"
          /\ pc' = [pc EXCEPT ![t] = "sd_test"]
          /\ UNCHANGED crashed
  /\ UNCHANGED << env, rdata, alive, ub, file_type, blocking, waitable,
                  mtx_owner, mtx_depth, error_pending, errcode, read_cursor,
                  read_avail, read_pending, write_pending, write_queue, rop,
                  wop, wbuf, cb, loc, ret, in_left, n_writes, n_fail,
                  n_allocfail, accepted, submitted, reported, latched,
                  wb_state >>

----------------------------------------------------------------------------
\* The buffers of a queue.
Range(q) == { q[k] : k \in 1..Len(q) }

\* win_close (lines 111-149).  The caller closes the stream when no other call
\* is running on it.  rc and wc are the answers of CancelIoEx: it can succeed
\* only for an operation the OS has not finished.  The queued buffers are
\* freed only inside the test of h->write_pending, each after free(b->data)
\* of the array inside it.  The mutex is never left.
win_close(t) ==
  /\ Running /\ t \in callers
  /\ \A u \in callers : pc[u] = "idle"
  /\ CanLock(t)
  /\ \E rc \in BOOLEAN, wc \in BOOLEAN :
       /\ rc => read_pending # 0 /\ rop[read_pending].os = "pending"
       /\ wc => write_pending # 0 /\ wop[write_pending].os = "pending"
       /\ rop' = IF rc THEN FreeReadOp(rop, read_pending) ELSE rop
       /\ read_pending' = IF rc THEN 0 ELSE read_pending
       /\ wop' = IF wc THEN [wop EXCEPT ![write_pending] = Freed(@)] ELSE wop
       /\ write_pending' = IF wc THEN 0 ELSE write_pending
  /\ IF write_pending # 0
     THEN /\ wbuf' = [b \in WriteIds |->
                        IF b \in Range(write_queue) THEN Freed(wbuf[b])
                        ELSE wbuf[b]]
          /\ write_queue' = << >>
          /\ ub' = IF write_queue # << >> THEN ub \cup {"invalid free"}
                   ELSE ub
     ELSE UNCHANGED << wbuf, write_queue, ub >>
  /\ MutexEnter(t)
  /\ alive' = FALSE
  /\ ret' = [ret EXCEPT ![t] = Ret(0, NoErrno, "close")]
  /\ UNCHANGED << env, rdata, crashed, file_type, blocking, waitable,
                  error_pending, errcode, read_cursor, read_avail, cb, pc,
                  loc, in_left, n_writes, n_fail, n_allocfail, accepted,
                  submitted, reported, latched, wb_state >>

----------------------------------------------------------------------------
\* The fields of struct win_handle, and the rest of an endpoint's state.
hvars == << alive, file_type, blocking, waitable, mtx_owner, mtx_depth,
            error_pending, errcode, read_cursor, read_avail, read_pending,
            write_pending, write_queue, read_mem >>

bvars == << crashed, ub, rop, wop, wbuf, cb, pc, loc, ret, in_left, n_writes,
            n_fail, n_allocfail, accepted, submitted, reported, latched,
            wb_state, delivered >>

\* No context, no buffer and no call exists yet.
NothingYet ==
  /\ crashed = ""
  /\ ub = {}
  /\ rop = [i \in ReadOpIds |-> NoReadOp]
  /\ wop = [i \in WriteIds |-> [mem |-> "none", os |-> "none"]]
  /\ wbuf = [i \in WriteIds |-> [mem |-> "none", len |-> 0]]
  /\ cb = [i \in WriteIds |-> [pc |-> "none", err |-> 0, bytes |-> 0]]
  /\ pc = [t \in Threads |-> "idle"]
  /\ loc = [t \in Threads |-> NoLoc]
  /\ ret = [t \in Threads |-> NoRet]
  /\ n_writes = 0
  /\ n_fail = 0
  /\ n_allocfail = 0
  /\ accepted = << >>
  /\ submitted = << >>
  /\ reported = [e \in ErrCodes |-> 0]
  /\ latched = {}
  /\ wb_state = "none"
  /\ delivered = << >>

\* w_stm_handleopen (lines 514-544): the endpoint as constructed.
EndpointInit ==
  /\ alive = TRUE
  /\ file_type \in {"PIPE", "DISK"}
  /\ blocking = TRUE
  /\ waitable = TRUE
  /\ mtx_owner = NoThread
  /\ mtx_depth = 0
  /\ error_pending = FALSE
  /\ errcode = 0
  /\ read_cursor = 0
  /\ read_avail = 0
  /\ read_pending = 0
  /\ write_pending = 0
  /\ write_queue = << >>
  /\ read_mem = << >>
  /\ NothingYet

\* Before w_stm_handleopen: there is no struct win_handle.
EndpointNone ==
  /\ alive = FALSE
  /\ file_type = "NONE"
  /\ blocking = FALSE
  /\ waitable = FALSE
  /\ mtx_owner = NoThread
  /\ mtx_depth = 0
  /\ error_pending = FALSE
  /\ errcode = 0
  /\ read_cursor = 0
  /\ read_avail = 0
  /\ read_pending = 0
  /\ write_pending = 0
  /\ write_queue = << >>
  /\ read_mem = << >>
  /\ NothingYet

-----------------------------------------------------------------------------
\* w_stm_connect_named_pipe (lines 546-600).  Time is in milliseconds; the
\* call starts at tick 0.

ConnTimeout == 20     \* a timeout the caller passes
ConnAvail == 15       \* a time at which the pipe gets a free instance
CallMs == 5           \* how long an OS call may take
ConnAllocFail == 1    \* failed calloc calls in a run

MaxInt32 == 2147483647
ERROR_FILE_NOT_FOUND == 2
ERROR_ACCESS_DENIED == 5
ERROR_SEM_TIMEOUT == 121
ERROR_PIPE_BUSY == 231
SleepMs == 10

E2BIG == << "E2BIG", 0 >>
ENOMEM == << "ENOMEM", 0 >>

Timeouts == {0, ConnTimeout, MaxInt32}

\* The path: longer than 255 characters or not; what CreateFile answers while
\* it cannot be opened; whether and from when it can be opened.
Paths ==
  [long : BOOLEAN,
   err : {ERROR_PIPE_BUSY, ERROR_FILE_NOT_FOUND, ERROR_ACCESS_DENIED},
   opens : BOOLEAN,
   at : {0, CallMs, ConnAvail}]

NoPath == [long |-> FALSE, err |-> 0, opens |-> FALSE, at |-> 0]

NoConn ==
  [pc |-> "none", timeout |-> 0, timeoutms |-> 0, deadline |-> 0, err |-> 0,
   ret |-> "none", errno |-> NoErrno]

NoConnect ==
  /\ now = 0
  /\ path = NoPath
  /\ conn = NoConn

Available == path.opens /\ now >= path.at

\* a - d in 32 bits, two's complement, for a, d within the range of int.
Sub32(a, d) ==
  IF d < 0 /\ a > MaxInt32 + d
  THEN (a - MaxInt32 - 1) + ((0 - d) - MaxInt32 - 1)
  ELSE IF d > 0 /\ a < (d - MaxInt32) - 1
       THEN ((a + MaxInt32) + (MaxInt32 - d)) + 2
       ELSE a - d

\* Lines 576-578: timeoutms -= (DWORD)(GetTickCount64() - deadline), when
\* timeoutms > 0.  The difference is taken modulo 2^32 and the result is
\* stored into an int.
remaining_timeout(timeoutms, tick, deadline) ==
  IF timeoutms > 0 THEN Sub32(timeoutms, tick - deadline) ELSE timeoutms

\* Lines 533-541: what w_stm_handleopen stores into the zeroed struct.
w_stm_handleopen(ft) ==
  /\ alive' = TRUE
  /\ file_type' = ft
  /\ blocking' = TRUE
  /\ waitable' = TRUE
  /\ mtx_owner' = NoThread
  /\ mtx_depth' = 0
  /\ read_cursor' = 0
  /\ UNCHANGED << error_pending, errcode, read_avail, read_pending,
                  write_pending, write_queue, read_mem >>

\* Lines 546-556: the deadline, and the test of the length of the path.
w_stm_connect_named_pipe ==
  /\ conn.pc = "call"
  /\ IF path.long
     THEN conn' = [conn EXCEPT !.pc = "done", !.ret = "NULL", !.errno = E2BIG]
     ELSE conn' = [conn EXCEPT !.pc = "open",
                               !.deadline = now + conn.timeoutms]
  /\ UNCHANGED << evars, now, path, poll >>

\* Lines 559-573: CreateFile, which takes d ms, and w_stm_handleopen on the
\* handle it returns; calloc in w_stm_handleopen may fail.
connect_CreateFile(d) ==
  /\ conn.pc = "open"
  /\ now' = now + d
  /\ IF Available
     THEN \/ /\ \E ft \in {"PIPE", "DISK"} : w_stm_handleopen(ft)
             /\ conn' = [conn EXCEPT !.pc = "done", !.ret = "stm"]
             /\ UNCHANGED n_allocfail
          \/ /\ n_allocfail < lim.allocfails
             /\ n_allocfail' = n_allocfail + 1
             /\ conn' = [conn EXCEPT !.pc = "done", !.ret = "NULL",
                                     !.errno = ENOMEM]
             /\ UNCHANGED hvars
     ELSE /\ conn' = [conn EXCEPT !.pc = "test", !.err = path.err]
          /\ UNCHANGED << hvars, n_allocfail >>
  /\ UNCHANGED << callers, lim, path, poll, crashed, ub, rop, wop, wbuf, cb,
                  pc, loc, ret, in_left, n_writes, n_fail, accepted,
                  submitted, reported, latched, wb_state, delivered >>

\* Lines 575-584: the time left, and whether to give up.
connect_retry ==
  /\ conn.pc = "test"
  /\ LET tm == remaining_timeout(conn.timeoutms, now, conn.deadline) IN
       IF tm <= 0 \/ (conn.err # ERROR_PIPE_BUSY
                      /\ conn.err # ERROR_FILE_NOT_FOUND)
       THEN conn' = [conn EXCEPT !.timeoutms = tm, !.pc = "done",
                                 !.ret = "NULL",
                                 !.errno = map_win32_err(conn.err)]
       ELSE conn' = [conn EXCEPT !.timeoutms = tm, !.pc = "wait"]
  /\ UNCHANGED << evars, now, path, poll >>

\* Lines 587-597: WaitNamedPipe(path, timeoutms).  It returns at once when
\* the pipe can be opened or does not exist; for a busy pipe it returns when
\* an instance is free, which another client may take before the next
\* CreateFile, or with ERROR_SEM_TIMEOUT after timeoutms.
connect_WaitNamedPipe ==
  /\ conn.pc = "wait"
  /\ \/ /\ Available
        /\ conn' = [conn EXCEPT !.pc = "open"]
        /\ UNCHANGED now
     \/ /\ ~Available /\ path.err = ERROR_FILE_NOT_FOUND
        /\ conn' = [conn EXCEPT !.pc = "sleep", !.err = ERROR_FILE_NOT_FOUND]
        /\ UNCHANGED now
     \/ /\ ~Available /\ path.err = ERROR_PIPE_BUSY
        /\ \E d \in {CallMs, path.at - now} :
             /\ d > 0 /\ d <= conn.timeoutms
             /\ d = CallMs \/ path.opens
             /\ ~path.opens \/ now + d <= path.at
             /\ now' = now + d
             /\ conn' = [conn EXCEPT !.pc = "open"]
     \/ /\ ~Available /\ path.err = ERROR_PIPE_BUSY
        /\ ~path.opens \/ path.at - now > conn.timeoutms
        /\ now' = now + conn.timeoutms
        /\ conn' = [conn EXCEPT !.pc = "done", !.ret = "NULL",
                                !.err = ERROR_SEM_TIMEOUT,
                                !.errno = map_win32_err(ERROR_SEM_TIMEOUT)]
  /\ UNCHANGED << evars, path, poll >>

\* Line 595: SleepEx(10, true), then retry_connect.
connect_SleepEx ==
  /\ conn.pc = "sleep"
  /\ now' = now + SleepMs
  /\ conn' = [conn EXCEPT !.pc = "open"]
  /\ UNCHANGED << evars, path, poll >>

NextConnect ==
  \/ w_stm_connect_named_pipe
  \/ \E d \in {0, CallMs} : connect_CreateFile(d)
  \/ connect_retry
  \/ connect_WaitNamedPipe
  \/ connect_SleepEx

-----------------------------------------------------------------------------
\* w_poll_events (lines 602-635) over p[0] .. p[n-1].

MaxPoll == 3          \* events in a call that are followed one by one
PollTimeout == 1      \* a finite, positive timeout

MAXIMUM_WAIT_OBJECTS == 64
WAIT_OBJECT_0 == 0
WAIT_ABANDONED_0 == 128
WAIT_TIMEOUT == 258
\* (DWORD)0xFFFFFFFF; a value that is no other result of the wait.
WAIT_FAILED == 0 - 1

NoPoll ==
  poll = [pc |-> "none", n |-> 0, timeoutms |-> 0, evt |-> {}, ready |-> {},
          res |-> 0, signaled |-> {}, ret |-> 0, errno |-> NoErrno]

\* The indices of the events of a call with n events.
PollIndex(n) == 0 .. (Min(n, MaxPoll) - 1)

MinOf(S) == CHOOSE i \in S : \A k \in S : i <= k

\* Lines 621-634 with the assignment to p[res].ready left out.
poll_result_unmarked(n, res) ==
  IF res = WAIT_FAILED
  THEN [ret |-> 0 - 1, ready |-> {}, failed |-> TRUE]
  ELSE IF res < WAIT_OBJECT_0 + n
       THEN [ret |-> 1, ready |-> {}, failed |-> FALSE]
       ELSE IF res >= WAIT_ABANDONED_0 /\ res < WAIT_ABANDONED_0 + n
            THEN [ret |-> 1, ready |-> {}, failed |-> FALSE]
            ELSE [ret |-> 0, ready |-> {}, failed |-> FALSE]

\* Lines 621-634: the return value and the entries marked ready, from the
\* result of WaitForMultipleObjectsEx.
poll_result(n, res) ==
  IF res = WAIT_FAILED
  THEN [ret |-> 0 - 1, ready |-> {}, failed |-> TRUE]
  ELSE IF res < WAIT_OBJECT_0 + n
       THEN [ret |-> 1, ready |-> {res - WAIT_OBJECT_0}, failed |-> FALSE]
       ELSE IF res >= WAIT_ABANDONED_0 /\ res < WAIT_ABANDONED_0 + n
            THEN [ret |-> 1, ready |-> {res - WAIT_ABANDONED_0},
                  failed |-> FALSE]
            ELSE [ret |-> 0, ready |-> {}, failed |-> FALSE]

\* Lines 607-616: the test of n, which ends the process when it fails, and
\* the loop that clears every ready flag.
w_poll_events ==
  /\ poll.pc = "call" /\ crashed = ""
  /\ IF poll.n > MAXIMUM_WAIT_OBJECTS - 1
     THEN /\ crashed' = "n > MAXIMUM_WAIT_OBJECTS-1"
          /\ UNCHANGED poll
     ELSE /\ poll' = [poll EXCEPT !.pc = "wait", !.ready = {}]
          /\ UNCHANGED crashed
  /\ UNCHANGED << callers, lim, now, path, conn, hvars, ub, rop, wop, wbuf,
                  cb, pc, loc, ret, in_left, n_writes, n_fail, n_allocfail,
                  accepted, submitted, reported, latched, wb_state,
                  delivered >>

\* Lines 618-619: WaitForMultipleObjectsEx(n, handles, false, timeout, true).
\* It fails for n = 0 and may fail otherwise; while no event is signaled an
\* APC ends it with WAIT_IO_COMPLETION; with S the events signaled when it
\* returns, it
\* answers the lowest index in S, as WAIT_ABANDONED_0 + i when that object
\* is a mutex whose owner has ended; with no event signaled within a finite
\* timeout it answers WAIT_TIMEOUT.
WaitForMultipleObjectsEx ==
  /\ poll.pc = "wait"
  /\ LET infinite == poll.timeoutms = 0 - 1
         Later == IF poll.evt # {} THEN {poll.evt}
                  ELSE IF poll.timeoutms = 0 THEN {{}}
                  ELSE SUBSET PollIndex(poll.n)
     IN \E S \in Later :
          \E res \in {WAIT_FAILED, WAIT_IO_COMPLETION, WAIT_TIMEOUT}
                       \cup {WAIT_OBJECT_0 + i : i \in PollIndex(poll.n)}
                       \cup {WAIT_ABANDONED_0 + i : i \in PollIndex(poll.n)} :
            /\ poll.n = 0 => res = WAIT_FAILED
            /\ res = WAIT_TIMEOUT => S = {} /\ ~infinite
            /\ res = WAIT_IO_COMPLETION => S = {}
            /\ \A i \in PollIndex(poll.n) :
                 /\ res = WAIT_OBJECT_0 + i => S # {} /\ i = MinOf(S)
                 /\ res = WAIT_ABANDONED_0 + i => S # {} /\ i = MinOf(S)
            /\ poll' = [poll EXCEPT !.pc = "result", !.res = res,
                                    !.signaled = S]
  /\ UNCHANGED << evars, now, path, conn >>

\* Lines 621-634: the return.
w_poll_events_return ==
  /\ poll.pc = "result"
  /\ LET r == poll_result(poll.n, poll.res) IN
       poll' = [poll EXCEPT !.pc = "done", !.ret = r.ret, !.ready = r.ready,
                            !.errno = IF r.failed
                                      THEN << "map_win32_err", "GetLastError" >>
                                      ELSE poll.errno]
  /\ UNCHANGED << evars, now, path, conn >>

NextPoll ==
  \/ w_poll_events
  \/ WaitForMultipleObjectsEx
  \/ w_poll_events_return

\* The steps of the write side: win_write, the completion of its overlapped
\* writes, and the calls that read or change what win_write reads.
NextWrite ==
  \/ \E t \in Threads : win_write(t)
  \/ \E t \in Threads : win_write_direct(t)
  \/ \E t \in Threads : win_write_direct_done(t)
  \/ \E i \in WriteIds : os_write_complete(i)
  \/ \E i \in WriteIds : write_completed(i)
  \/ \E i \in WriteIds : write_completed_free(i)
  \/ \E t \in Threads : win_set_nonb(t)
  \/ \E t \in Threads : win_shutdown(t)
  \/ \E t \in Threads : win_shutdown_test(t)
  \/ \E t \in Threads : win_shutdown_wait(t)
  \/ \E t \in Threads : win_close(t)

\* The steps of the read side.
NextRead ==
  \/ \E t \in Threads : win_set_nonb(t)
  \/ \E t \in Threads : win_read(t)
  \/ \E t \in Threads : win_read_get_result(t)
  \/ \E t \in Threads : win_read_handle_completion(t)
  \/ \E t \in Threads : win_read_error_test(t)
  \/ \E t \in Threads : win_read_error_report(t)
  \/ \E t \in Threads : win_read_blocking(t)
  \/ \E t \in Threads : win_read_blocking_done(t)
  \/ \E t \in Threads : win_read_non_blocking(t)
  \/ \E i \in ReadOpIds : os_read_complete(i)

Next == NextWrite \/ NextRead

Limits(w, l, f, a, i, s) ==
  [writes |-> w, len |-> l, fails |-> f, allocfails |-> a, incoming |-> i,
   size |-> s]

\* Two threads write, shut down and close; the far end sends nothing.
InitWrite ==
  /\ callers = Threads
  /\ lim = Limits(MaxWrites, MaxLen, MaxFail, MaxAllocFail, 0, 0)
  /\ in_left = 0
  /\ EndpointInit
  /\ NoConnect
  /\ NoPoll

SpecWrite == InitWrite /\ [][NextWrite]_vars

\* The same with fewer calls.
InitQueue ==
  /\ callers = Threads
  /\ lim = Limits(QueueWrites, QueueLen, QueueFail, QueueAllocFail, 0, 0)
  /\ in_left = 0
  /\ EndpointInit
  /\ NoConnect
  /\ NoPoll

SpecQueue == InitQueue /\ [][NextWrite]_vars

\* One thread calls into the endpoint.
InitSeq ==
  /\ callers = {"t1"}
  /\ lim = Limits(SeqWrites, 1, SeqFail, 0, SeqIn, SeqSize)
  /\ in_left = SeqIn
  /\ EndpointInit
  /\ NoConnect
  /\ NoPoll

\* Reads, mode switches and writes of one thread, up to win_shutdown.
NextSeq ==
  \/ NextRead
  \/ \E t \in Threads : win_write(t)
  \/ \E t \in Threads : win_write_direct(t)
  \/ \E t \in Threads : win_write_direct_done(t)
  \/ \E i \in WriteIds : os_write_complete(i)
  \/ \E i \in WriteIds : write_completed(i)
  \/ \E i \in WriteIds : write_completed_free(i)

SpecSeq == InitSeq /\ [][NextSeq]_vars

\* Two threads read.
InitRead ==
  /\ callers = Threads
  /\ lim = Limits(0, 0, ReadFail, 0, ReadIn, ReadSize)
  /\ in_left = ReadIn
  /\ EndpointInit
  /\ NoConnect
  /\ NoPoll

SpecRead == InitRead /\ [][NextRead]_vars

\* One thread reads and switches modes; nothing is written.
InitBuf ==
  /\ callers = {"t1"}
  /\ lim = Limits(0, 0, BufFail, 0, BufIn, BufSize)
  /\ in_left = BufIn
  /\ EndpointInit
  /\ NoConnect
  /\ NoPoll

SpecBuf == InitBuf /\ [][NextRead]_vars

\* Two threads read and write.
InitError ==
  /\ callers = Threads
  /\ lim = Limits(ErrorWrites, 1, ErrorFail, 0, 0, 1)
  /\ in_left = 0
  /\ EndpointInit
  /\ NoConnect
  /\ NoPoll

SpecError == InitError /\ [][Next]_vars

----------------------------------------------------------------------------
\* One call of w_stm_connect_named_pipe.
InitConnect ==
  /\ callers = {}
  /\ lim = Limits(0, 0, 0, ConnAllocFail, 0, 0)
  /\ in_left = 0
  /\ EndpointNone
  /\ now = 0
  /\ path \in Paths
  /\ \E T \in Timeouts :
       conn = [NoConn EXCEPT !.pc = "call", !.timeout = T, !.timeoutms = T]
  /\ NoPoll

SpecConnect == InitConnect /\ [][NextConnect]_vars

\* One call of w_poll_events; the ready flags hold what an earlier call left.
InitPoll ==
  /\ callers = {}
  /\ lim = Limits(0, 0, 0, 0, 0, 0)
  /\ in_left = 0
  /\ EndpointNone
  /\ NoConnect
  /\ \E n \in (0 .. MaxPoll) \cup {MAXIMUM_WAIT_OBJECTS} :
       \E tm \in {0 - 1, 0, PollTimeout} :
         \E E \in SUBSET PollIndex(n) :
           \E R \in SUBSET PollIndex(n) :
             poll = [pc |-> "call", n |-> n, timeoutms |-> tm, evt |-> E,
                     ready |-> R, res |-> 0, signaled |-> {}, ret |-> 0,
                     errno |-> NoErrno]

SpecPoll == InitPoll /\ [][NextPoll]_vars

-----
\* Derived notions.

\* Writes the OS holds: submitted, and their completion routine has not begun.
InFlightWrites == { i \in WriteIds : wop[i].os = "pending"
                                     \/ cb[i].pc = "queued" }

\* Reads the OS holds.
InFlightReads == { i \in ReadOpIds : rop[i].os = "pending" }

\* No call is running, no write is in flight and no completion is outstanding.
Quiescent ==
  /\ \A t \in Threads : pc[t] = "idle"
  /\ \A i \in WriteIds : wop[i].os # "pending" /\ cb[i].pc = "none"

\* The payloads of the accepted win_write calls that were passed to the OS, in
\* the order they were passed.
Handed ==
  LET Accepted(e) == e.p \in Range(accepted)
      sub == SelectSeq(submitted, Accepted)
  IN [k \in 1..Len(sub) |-> sub[k].p]

\* A write buffer that is allocated, is not in the queue and is not the
\* buffer of an allocated write context.
Orphan(b) ==
  /\ wbuf[b].mem = "live"
  /\ b \notin Range(write_queue)
  /\ wop[b].mem # "live"

----------------------------------------------------------------------------
\* C9: at most one overlapped write is in flight, and while the endpoint
\* exists it is the one h->write_pending names.
C9_OneWriteInFlight ==
  /\ Cardinality(InFlightWrites) <= 1
  /\ alive => \A i \in InFlightWrites : write_pending = i

\* A write is in flight and a later win_write has queued its buffer behind it.
C9_Witness ==
  /\ write_pending # 0
  /\ wop[write_pending].os = "pending"
  /\ write_queue # << >>

\* C1: once nothing is running or in flight on an open endpoint, the payloads
\* passed to the OS are the accepted payloads, each once, in the order
\* win_write accepted them.
C1_HandedIsAccepted ==
  Quiescent /\ Running => Handed = accepted

\* C5: after win_shutdown and win_close no write buffer is left allocated
\* with nothing referencing it, and none was freed twice.
C5_NoLeakAfterClose ==
  (~alive /\ \E t \in Threads : ret[t].op = "shutdown") =>
     /\ \A b \in WriteIds : ~Orphan(b) /\ wbuf[b].mem # "double"
     /\ "invalid free" \notin ub

C4_NextReadReturnsData ==
  /\ wb_state = "ready" => waitable
  /\ \A t \in callers : ret[t].ready => ret[t].val > 0

\* C4, as the code has it: once the pending read of a read that found
\* nothing has completed with data, the event is signaled, and the next read
\* returns a positive count unless a failure was latched, which it returns
\* instead.
C4_NextReadReturnsDataOrLatchedError ==
  /\ wb_state = "ready" => waitable
  /\ \A t \in callers :
       ret[t].ready =>
         \/ ret[t].val > 0
         \/ /\ ret[t].op = "read_error"
            /\ \E e \in latched : ret[t].errno = map_win32_err(e)

\* The read after the completion has returned data.
C4_Witness ==
  \E t \in callers : ret[t].ready /\ ret[t].val > 0 /\ pc[t] = "idle"

\* C3: a failure latched into h->errcode is returned by one win_read and by
\* no later one.
C3_LatchedFailureReturnedOnce ==
  \A e \in FailIds : reported[e] <= 1

\* C10: at most one overlapped read is in flight.
C10_OneReadInFlight ==
  Cardinality(InFlightReads) <= 1

\* C7: a connect with a positive timeout to a path that stays busy, or is
\* never created, returns the timeout error (the mapping of
\* ERROR_SEM_TIMEOUT), not the error of the last CreateFile.
C7_UnavailablePathTimesOut ==
  ( /\ conn.pc = "done"
    /\ conn.timeout > 0
    /\ ~path.long /\ ~path.opens
    /\ path.err \in {ERROR_PIPE_BUSY, ERROR_FILE_NOT_FOUND} )
  => /\ conn.ret = "NULL"
     /\ conn.errno = map_win32_err(ERROR_SEM_TIMEOUT)

\* C8: a connect with timeout T to a path that is busy or missing until a time
\* t < T and can be opened from then on returns an endpoint and no error; the
\* endpoint is blocking, has nothing buffered, no operation in flight and a
\* signaled event.
C8_ConnectSucceedsWithinTimeout ==
  ( /\ conn.pc = "done"
    /\ ~path.long
    /\ path.err \in {ERROR_PIPE_BUSY, ERROR_FILE_NOT_FOUND}
    /\ path.opens /\ path.at < conn.timeout
    /\ n_allocfail = 0 )
  => /\ conn.ret = "stm"
     /\ alive /\ blocking /\ waitable
     /\ read_avail = 0 /\ read_pending = 0 /\ write_pending = 0

\* C6, as stated: w_poll_events returns -1 when the wait fails; otherwise the
\* entries marked ready are exactly those whose event is signaled when the
\* wait returns, and the return value is their number.
C6_MarksEverySignaled ==
  (poll.pc = "done" /\ poll.n <= MAXIMUM_WAIT_OBJECTS - 1) =>
    IF poll.res = WAIT_FAILED
    THEN poll.ret = 0 - 1
    ELSE /\ poll.ready = poll.signaled
         /\ poll.ret = Cardinality(poll.ready)

\* C6, as the code has it: w_poll_events returns -1 exactly when the wait fails; when
\* the wait reports a signaled (or abandoned) object it marks only the
\* lowest-index signaled entry and returns 1; on a timeout or an alertable
\* wake-up it marks nothing and returns 0.  Unless it is -1 the return value
\* is the number of entries marked.
C6_MarksLowestSignaled ==
  (poll.pc = "done" /\ poll.n <= MAXIMUM_WAIT_OBJECTS - 1) =>
    /\ (poll.ret = 0 - 1) <=> (poll.res = WAIT_FAILED)
    /\ poll.res = WAIT_FAILED => poll.ready = {}
    /\ poll.res # WAIT_FAILED => poll.ret = Cardinality(poll.ready)
    /\ \A i \in PollIndex(poll.n) :
         poll.res \in {WAIT_OBJECT_0 + i, WAIT_ABANDONED_0 + i} =>
           /\ poll.ready = {MinOf(poll.signaled)}
           /\ poll.ret = 1
    /\ poll.res \in {WAIT_TIMEOUT, WAIT_IO_COMPLETION} =>
         /\ poll.ready = {}
         /\ poll.ret = 0

\* Two events were signaled when the wait returned, and the call has marked
\* one entry.
C6_Witness ==
  /\ poll.pc = "done"
  /\ Cardinality(poll.signaled) >= 2
  /\ poll.ret = 1
  /\ Cardinality(poll.ready) = 1

\* A thread is inside an OS call that can block: the synchronous WriteFile of
\* win_write (line 411), the synchronous ReadFile of win_read_blocking
\* (line 231), the wait of win_shutdown (lines 479-480), or the wait of
\* win_read_handle_completion (lines 193-194), which is infinite in blocking
\* mode.
InBlockingCall(t) ==
  \/ pc[t] \in {"wr_sync", "rd_sync", "sd_wait"}
  \/ pc[t] = "rd_hc_wait" /\ blocking

\* C11: no thread holds the endpoint mutex while it is inside a blocking OS
\* call (synchronous read, synchronous write, wait for a completion).
C11_NoBlockingCallUnderMutex ==
  \A t \in Threads : InBlockingCall(t) => mtx_owner # t

\* The fields of the endpoint that change after w_stm_handleopen (struct
\* win_handle, lines 27-39).
MutableFields ==
  << read_cursor, read_avail, read_pending, write_pending, write_queue,
     error_pending, errcode, blocking >>

\* C12: every write to a mutable field of the endpoint is made by a thread
\* that holds the endpoint mutex: while a thread is inside a call and owns the
\* mutex, a step of anybody else changes no field.
C12_FieldWritesUnderMutex ==
  [][ \A u \in Threads :
        (mtx_owner = u /\ pc[u] # "idle" /\ pc'[u] = pc[u]) =>
          UNCHANGED MutableFields ]_vars

\* C13: win_shutdown returns only when no write is in flight and the write
\* queue is empty, so that every buffer accepted by win_write before it has
\* been handed to the OS and has completed.
C13_ShutdownReturnsDrained ==
  [][ \A t \in Threads :
        (pc[t] = "sd_test" /\ pc'[t] = "idle") =>
          /\ write_pending' = 0
          /\ InFlightWrites' = {}
          /\ write_queue' = << >> ]_vars

\* C14: whenever the endpoint mutex is not held, a non-empty write queue
\* implies that a write is in flight.
C14_QueuedImpliesPending ==
  (Running /\ mtx_owner = NoThread /\ write_queue # << >>) =>
    write_pending # 0

\* C16: a blocking read whose synchronous ReadFile fails after k bytes were
\* copied from the read buffer returns k and no error when k > 0, and an
\* error when k = 0; a request the buffer satisfies in full returns its size
\* without a call to the OS.
C16_BlockingReadKeepsBufferedBytes ==
  [][ \A t \in Threads :
        /\ (pc[t] = "rd_sync" /\ pc'[t] = "idle" /\ ret'[t].io = "failed") =>
             IF loc[t].total > 0
             THEN ret'[t].val = loc[t].total /\ ret'[t].errno = NoErrno
             ELSE ret'[t].val = 0 - 1 /\ ret'[t].errno # NoErrno
        /\ (pc[t] = "rd_body" /\ pc'[t] # "rd_body" /\ blocking
            /\ read_avail >= loc[t].size) =>
             /\ pc'[t] = "idle"
             /\ ret'[t].val = loc[t].size
             /\ ret'[t].errno = NoErrno
             /\ ret'[t].io = ""
             /\ in_left' = in_left ]_vars

\* A blocking read has returned the bytes it took from the buffer after its
\* ReadFile failed.
C16_Witness ==
  \E t \in Threads :
    /\ pc[t] = "idle"
    /\ ret[t].op = "read_blocking"
    /\ ret[t].io = "failed"
    /\ ret[t].val > 0
    /\ ret[t].val < ret[t].req

\* C18: whenever the sticky error is pending, the waitable event of the
\* endpoint is signaled.
C18_PendingErrorIsSignaled ==
  (Running /\ error_pending) => waitable

\* C19: at every retry, the timeout w_stm_connect_named_pipe passes to
\* WaitNamedPipe is at most the timeout it was called with minus the time
\* elapsed since the call started.
C19_RemainingTimeoutShrinks ==
  (conn.pc = "wait" /\ conn.timeout > 0) =>
    conn.timeoutms <= conn.timeout - now

\* C20: every return path of win_write, win_read_handle_completion and
\* write_completed leaves the mutex it entered: the mutex is free whenever no
\* call is executing on the endpoint.
C20_MutexFreeWhenIdle ==
  (Running /\ \A t \in Threads : pc[t] = "idle") => mtx_owner = NoThread

\* C17: no completion callback and no thread dereferences an operation
\* context, or the endpoint through a context, after it has been freed.
C17_NoUseAfterFree ==
  "use after free" \notin ub

====
